---- MODULE Spec2Model ----
(***************************************************************************)
(* Painel de Busca de Comprovantes (src/app.py): the paginated fetch with  *)
(* its time-boxed cache, the search filter, the grouping by payee and      *)
(* date, and the cached PDF merge.                                         *)
(***************************************************************************)
EXTENDS Integers, Sequences, FiniteSets, TLC

VARIABLES
    now,            \* wall clock read by the time-boxed cache
    data_cache,     \* st.cache_data store of fetch_data_from_supabase
    fpc,            \* "idle" | "loop": position inside fetch_data_from_supabase
    offset,         \* offset (line 37)
    all_data,       \* all_data (line 36)
    requests,       \* the ranges asked of the backend in the current cycle
    pages,          \* the non-empty pages the backend answered in the current cycle
    fetch_error,    \* st.error was called by the current cycle (line 53)
    response,       \* outcome of the latest page request: "none" | "data" | "empty" | "error"
    runs,           \* number of script runs started
    served,         \* how the latest run got its receipts: "none" | "cache" | "fetch"
    all_receipts,   \* all_receipts (line 62)
    search_term,    \* search_term (line 67)
    filtered_receipts,      \* filtered_receipts (lines 69-78)
    mapping,        \* mapping (line 83): cnpj -> its (date_str, receipts) items, in insertion order
    cnpj_to_name,   \* cnpj_to_name (line 84)
    selected_cnpj,  \* selected_cnpj (line 102)
    all_receipts_for_cnpj,  \* all_receipts_for_cnpj (lines 105-109)
    apc,            \* "input" | "filtered" | "empty" | "grouped" | "selected": position in the script body
    store,          \* the document store: what a GET of each pdf_url gives
    merge_cache,    \* st.cache_data store of merge_pdfs_from_urls
    mpc,            \* "idle" | "merge" | "render" | "done" | "crashed": position below line 111
    receipts,       \* receipts (line 118)
    ri,             \* index in receipts of the receipt the loop of line 121 is at
    pdf_writer,     \* pages added to pdf_writer (line 119)
    merged_pdf_data,        \* merged_pdf_data (line 139)
    downloaded,     \* the urls requested by the current run (line 125)
    uncaught,       \* the exception that ended the current run, or "none"
    rendered,       \* the receipt list and total the current run has shown (lines 148-177)
    mruns,          \* number of script runs that reached line 111
    merge_served,   \* how the current run got merged_pdf_data: "none" | "cache" | "body"
    merged_lists    \* the receipt lists whose merge has been written and returned

fetchVars == <<now, data_cache, fpc, offset, all_data, requests, pages,
               fetch_error, response, runs, served, all_receipts>>

aggVars == <<search_term, filtered_receipts, mapping, cnpj_to_name,
             selected_cnpj, all_receipts_for_cnpj, apc>>

mergeVars == <<store, merge_cache, mpc, receipts, ri, pdf_writer, merged_pdf_data,
               downloaded, uncaught, rendered, mruns, merge_served, merged_lists>>

vars == <<fetchVars, aggVars, mergeVars>>

----------------------------------------------------------------------------
(* Bounds *)

MaxTime == 1300
MaxRuns == 3
MaxPagesPerCycle == 2
MaxRecordId == 2
MaxTermLen == 2
MaxSearched == 2
MaxGrouped == 3
MaxValor == 2
MaxMergeRuns == 2
MaxMerged == 4
MaxDocPages == 2

TickSteps == {100, 500}
RecordIds == 1..MaxRecordId
\* a non-empty page answered by the backend (one record stands for its rows)
NonEmptyPages == {<<r>> : r \in RecordIds}

----------------------------------------------------------------------------
(* st.cache_data *)

\* The decorated functions' parameters: a parameter whose name begins with an
\* underscore is left out of the cache key.
DbClientParam == [name |-> "_db_client", underscore |-> TRUE]

\* The key of one call: the hashed arguments, in order.
MakeValueKey(param, arg) == IF param.underscore THEN <<>> ELSE <<arg>>

IsFresh_le(entry, t, ttl) == t <= entry.stored + ttl
IsFresh_never(entry, t, ttl) == t < entry.stored
\* A stored entry is served while younger than the ttl.
IsFresh(entry, t, ttl) == t < entry.stored + ttl

CacheHit(cache, key, t, ttl) ==
    /\ key \in DOMAIN cache
    /\ IsFresh(cache[key], t, ttl)

CacheStore(cache, key, value, t) ==
    (key :> [value |-> value, stored |-> t]) @@ cache

EmptyCache == <<>>

----------------------------------------------------------------------------
(* fetch_data_from_supabase *)

page_size == 1000
TTL == 600

\* the one client of the process (init_supabase_client is a cached resource)
supabase == "client"

FetchKey == MakeValueKey(DbClientParam, supabase)

RangeOf_wide(off) == <<off, off + page_size>>
\* .range(offset, offset + page_size - 1)
RangeOf(off) == <<off, off + page_size - 1>>

ReturnOnError_empty(data) == <<>>
\* except Exception: return all_data
ReturnOnError(data) == data

\* the script body below line 62 has not run
AggIdle ==
    /\ search_term = <<>>
    /\ filtered_receipts = <<>>
    /\ mapping = <<>>
    /\ cnpj_to_name = <<>>
    /\ selected_cnpj = [none |-> TRUE]
    /\ all_receipts_for_cnpj = <<>>
    /\ apc = "input"

\* nothing below line 111 has run
MergeIdle ==
    /\ merge_cache = <<>>
    /\ mpc = "idle"
    /\ receipts = <<>>
    /\ ri = 1
    /\ pdf_writer = <<>>
    /\ merged_pdf_data = [none |-> TRUE]
    /\ downloaded = <<>>
    /\ uncaught = "none"
    /\ rendered = [none |-> TRUE]
    /\ mruns = 0
    /\ merge_served = "none"
    /\ merged_lists = {}

InitFetch ==
    /\ AggIdle
    /\ MergeIdle
    /\ store = <<>>
    /\ now = 0
    /\ data_cache = EmptyCache
    /\ fpc = "idle"
    /\ offset = 0
    /\ all_data = <<>>
    /\ requests = <<>>
    /\ pages = <<>>
    /\ fetch_error = FALSE
    /\ response = "none"
    /\ runs = 0
    /\ served = "none"
    /\ all_receipts = <<>>

Tick ==
    /\ \E d \in TickSteps :
          /\ now + d <= MaxTime
          /\ now' = now + d
    /\ UNCHANGED <<data_cache, fpc, offset, all_data, requests, pages,
                   fetch_error, response, runs, served, all_receipts, aggVars, mergeVars>>

\* line 62 with a fresh entry: the cached value is returned, the body is not run
RunCached ==
    /\ fpc = "idle"
    /\ runs < MaxRuns
    /\ CacheHit(data_cache, FetchKey, now, TTL)
    /\ all_receipts' = data_cache[FetchKey].value
    /\ runs' = runs + 1
    /\ served' = "cache"
    /\ UNCHANGED <<now, data_cache, fpc, offset, all_data, requests, pages,
                   fetch_error, response, aggVars, mergeVars>>

\* line 62 with no fresh entry: the body starts (lines 36-38)
RunFetch ==
    /\ fpc = "idle"
    /\ runs < MaxRuns
    /\ ~CacheHit(data_cache, FetchKey, now, TTL)
    /\ fpc' = "loop"
    /\ all_data' = <<>>
    /\ offset' = 0
    /\ requests' = <<>>
    /\ pages' = <<>>
    /\ fetch_error' = FALSE
    /\ response' = "none"
    /\ runs' = runs + 1
    /\ served' = "fetch"
    /\ UNCHANGED <<now, data_cache, all_receipts, aggVars, mergeVars>>

\* lines 42-50: the request succeeds with a non-empty page
PageData ==
    /\ fpc = "loop"
    /\ Len(pages) < MaxPagesPerCycle
    /\ \E data \in NonEmptyPages :
          /\ all_data' = all_data \o data
          /\ pages' = Append(pages, data)
    /\ requests' = Append(requests, RangeOf(offset))
    /\ offset' = offset + page_size
    /\ response' = "data"
    /\ UNCHANGED <<now, data_cache, fpc, fetch_error, runs, served, all_receipts,
                   aggVars, mergeVars>>

\* lines 46-47, 56: an empty page ends the loop; the result is stored and returned
PageEmpty ==
    /\ fpc = "loop"
    /\ requests' = Append(requests, RangeOf(offset))
    /\ data_cache' = CacheStore(data_cache, FetchKey, all_data, now)
    /\ all_receipts' = all_data
    /\ fpc' = "idle"
    /\ response' = "empty"
    /\ UNCHANGED <<now, offset, all_data, pages, fetch_error, runs, served, aggVars, mergeVars>>

\* lines 52-54: the request raises; the error is shown and all_data returned
PageError ==
    /\ fpc = "loop"
    /\ requests' = Append(requests, RangeOf(offset))
    /\ fetch_error' = TRUE
    /\ data_cache' = CacheStore(data_cache, FetchKey, ReturnOnError(all_data), now)
    /\ all_receipts' = ReturnOnError(all_data)
    /\ fpc' = "idle"
    /\ response' = "error"
    /\ UNCHANGED <<now, offset, all_data, pages, runs, served, aggVars, mergeVars>>

NextFetch ==
    \/ Tick
    \/ RunCached
    \/ RunFetch
    \/ PageData
    \/ PageEmpty
    \/ PageError

SpecFetch == InitFetch /\ [][NextFetch]_vars

----------------------------------------------------------------------------
(* Claims about the fetch and its cache *)

RECURSIVE Flatten(_)
Flatten(ps) == IF ps = <<>> THEN <<>> ELSE Head(ps) \o Flatten(Tail(ps))

\* the entry of this client is inside its 600-unit window
InWindow ==
    /\ FetchKey \in DOMAIN data_cache
    /\ now < data_cache[FetchKey].stored + 600

C4_ErrorKeepsPartial ==
    response = "error" =>
        /\ fpc = "idle"
        /\ fetch_error
        /\ Len(requests) = Len(pages) + 1
        /\ all_receipts = Flatten(pages)

C4_Witness ==
    /\ response = "error"
    /\ served = "fetch"
    /\ Len(pages) = 2
    /\ all_receipts = pages[1] \o pages[2]

\* C5: after k non-empty pages and an empty one, k+1 requests were issued, the
\* i-th for [1000*(i-1), 1000*i - 1], and the result is the k pages in order.
C5_Pagination ==
    response = "empty" =>
        /\ fpc = "idle"
        /\ ~fetch_error
        /\ Len(requests) = Len(pages) + 1
        /\ \A i \in 1..Len(requests) :
              requests[i] = <<1000 * (i - 1), 1000 * i - 1>>
        /\ all_receipts = Flatten(pages)

C5_Witness ==
    /\ response = "empty"
    /\ served = "fetch"
    /\ Len(pages) = 2
    /\ Len(requests) = 3
    /\ Len(all_receipts) = 2

\* C10: a cycle cut short by a request error leaves its partial list in the
\* cache; a later run inside the 600-unit window gets that list and issues no
\* page request.
C10_PartialIsCached ==
    /\ [](response = "error" =>
              /\ FetchKey \in DOMAIN data_cache
              /\ data_cache[FetchKey].value = Flatten(pages))
    /\ [][ (response = "error" /\ runs' = runs + 1 /\ InWindow) =>
              /\ all_receipts' = Flatten(pages)
              /\ served' = "cache"
              /\ fpc' = "idle"
              /\ requests' = requests
       ]_vars

C10_Witness ==
    /\ response = "error"
    /\ served = "cache"
    /\ pages # <<>>
    /\ all_receipts = Flatten(pages)
    /\ now > data_cache[FetchKey].stored

----------------------------------------------------------------------------
(* Receipts: the rows of table 'comprovantes' (line 43).  A text is a      *)
(* sequence of characters, an ISO date 'YYYY-MM-DD' the sequence <<Y, M, D>>. *)

None == [none |-> TRUE]
Str(s) == [v |-> s]

Receipt(nome, cnpj, chave, data, valor, url) ==
    [nome_recebedor |-> nome, cnpj_recebedor |-> cnpj, chave_pix |-> chave,
     data_transferencia |-> data, valor |-> valor, pdf_url |-> url]

SeqsUpTo(S, n) == UNION {[1..k -> S] : k \in 0..n}

\* the truth value of r.get(field): None and '' are false
Truthy(field) == field # None /\ field.v # <<>>

----------------------------------------------------------------------------
(* The search filter (lines 67-78) *)

\* str.lower() on one character
Lower(c) == CASE c = "A" -> "a" [] c = "B" -> "b" [] OTHER -> c

\* str.lower()
LowerStr(s) == [i \in 1..Len(s) |-> Lower(s[i])]

\* sub in s
Contains(sub, s) ==
    \E i \in 0..(Len(s) - Len(sub)) : SubSeq(s, i + 1, i + Len(sub)) = sub

FieldMatches_cs(field, term_lower) ==
    Truthy(field) /\ Contains(term_lower, field.v)
\* r.get(f) and search_term_lower in r[f].lower()
FieldMatches(field, term_lower) ==
    Truthy(field) /\ Contains(term_lower, LowerStr(field.v))

\* the condition of the comprehension (lines 73-75)
Matches(r, term_lower) ==
    \/ FieldMatches(r.nome_recebedor, term_lower)
    \/ FieldMatches(r.cnpj_recebedor, term_lower)
    \/ FieldMatches(r.chave_pix, term_lower)

\* lines 69-78
FilterReceipts(rs, term) ==
    IF term # <<>>
    THEN SelectSeq(rs, LAMBDA r : Matches(r, LowerStr(term)))
    ELSE rs

----------------------------------------------------------------------------
(* Grouping and flattening (lines 83-109) *)

\* datetime.strptime(s, '%Y-%m-%d')
Strptime_ymd(s) == [year |-> s[1], month |-> s[2], day |-> s[3]]
\* .strftime('%d/%m/%Y')
Strftime_dmy(d) == <<d.day, d.month, d.year>>
\* datetime.strptime(s, '%d/%m/%Y')
Strptime_dmy(s) == [year |-> s[3], month |-> s[2], day |-> s[1]]

\* date_str (line 87)
DateStr(iso) == Strftime_dmy(Strptime_ymd(iso))

\* datetime < datetime
DateLess(a, b) ==
    \/ a.year < b.year
    \/ a.year = b.year /\ a.month < b.month
    \/ a.year = b.year /\ a.month = b.month /\ a.day < b.day

\* mapping[cnpj][date_str].append(receipt) on the items of mapping[cnpj]
AppendToItems(items, date_str, receipt) ==
    IF \E i \in 1..Len(items) : items[i][1] = date_str
    THEN [i \in 1..Len(items) |->
            IF items[i][1] = date_str
            THEN <<date_str, Append(items[i][2], receipt)>>
            ELSE items[i]]
    ELSE Append(items, <<date_str, <<receipt>> >>)

\* one pass of the loop body (lines 86-92) on mapping
MappingAdd(m, receipt) ==
    LET cnpj == receipt.cnpj_recebedor
        date_str == DateStr(receipt.data_transferencia)
    IN  IF cnpj \in DOMAIN m
        THEN [m EXCEPT ![cnpj] = AppendToItems(@, date_str, receipt)]
        ELSE (cnpj :> << <<date_str, <<receipt>> >> >>) @@ m

\* one pass of the loop body (lines 89-90) on cnpj_to_name
NameAdd(names, receipt) ==
    LET cnpj == receipt.cnpj_recebedor
    IN  IF cnpj \in DOMAIN names
        THEN names
        ELSE (cnpj :> receipt.nome_recebedor) @@ names

RECURSIVE BuildMapping(_, _)
BuildMapping(m, rs) ==
    IF rs = <<>> THEN m ELSE BuildMapping(MappingAdd(m, Head(rs)), Tail(rs))

RECURSIVE BuildNames(_, _)
BuildNames(names, rs) ==
    IF rs = <<>> THEN names ELSE BuildNames(NameAdd(names, Head(rs)), Tail(rs))

SortKey_text(date_str) ==
    [year |-> date_str[1], month |-> date_str[2], day |-> date_str[3]]
\* key=lambda d: datetime.strptime(d, '%d/%m/%Y')
SortKey(date_str) == Strptime_dmy(date_str)

\* sorted(..., reverse=True) is stable: a key goes after the keys not less than it
RECURSIVE InsertDesc(_, _)
InsertDesc(x, sorted) ==
    IF sorted = <<>> THEN <<x>>
    ELSE IF DateLess(SortKey(Head(sorted)), SortKey(x)) THEN <<x>> \o sorted
    ELSE <<Head(sorted)>> \o InsertDesc(x, Tail(sorted))

RECURSIVE SortedDesc(_, _)
SortedDesc(acc, keys) ==
    IF keys = <<>> THEN acc ELSE SortedDesc(InsertDesc(Head(keys), acc), Tail(keys))

\* all_date_receipts.keys()
ItemKeys(items) == [i \in 1..Len(items) |-> items[i][1]]

\* all_date_receipts[date_key]
ItemAt(items, date_key) ==
    items[CHOOSE i \in 1..Len(items) : items[i][1] = date_key][2]

\* lines 108-109
RECURSIVE ExtendAll(_, _)
ExtendAll(items, dates) ==
    IF dates = <<>> THEN <<>>
    ELSE ItemAt(items, Head(dates)) \o ExtendAll(items, Tail(dates))

\* lines 104-109
ReceiptsForCnpj(m, cnpj) ==
    LET all_date_receipts == IF cnpj \in DOMAIN m THEN m[cnpj] ELSE <<>>
        sorted_dates == SortedDesc(<<>>, ItemKeys(all_date_receipts))
    IN  ExtendAll(all_date_receipts, sorted_dates)

\* lines 64-78: the search box is read and the receipts filtered
Search ==
    /\ apc = "input"
    /\ all_receipts # <<>>
    /\ filtered_receipts' = FilterReceipts(all_receipts, search_term)
    /\ apc' = IF filtered_receipts' = <<>> THEN "empty" ELSE "filtered"
    /\ UNCHANGED <<fetchVars, search_term, mapping, cnpj_to_name, selected_cnpj,
                   all_receipts_for_cnpj, mergeVars>>

\* lines 83-94: the filtered receipts are grouped
Group ==
    /\ apc = "filtered"
    /\ mapping' = BuildMapping(<<>>, filtered_receipts)
    /\ cnpj_to_name' = BuildNames(<<>>, filtered_receipts)
    /\ apc' = "grouped"
    /\ UNCHANGED <<fetchVars, search_term, filtered_receipts, selected_cnpj,
                   all_receipts_for_cnpj, mergeVars>>

\* lines 99-109: a payee of the select box is chosen and its receipts flattened
Select ==
    /\ apc = "grouped"
    /\ \E cnpj \in DOMAIN cnpj_to_name :
          /\ selected_cnpj' = cnpj
          /\ all_receipts_for_cnpj' = ReceiptsForCnpj(mapping, cnpj)
    /\ apc' = "selected"
    /\ UNCHANGED <<fetchVars, search_term, filtered_receipts, mapping, cnpj_to_name,
                   mergeVars>>

NextAgg ==
    \/ Search
    \/ Group
    \/ Select

\* the fetch has returned all_receipts and is at rest
FetchIdle ==
    /\ now = 0
    /\ data_cache = EmptyCache
    /\ fpc = "idle"
    /\ offset = 0
    /\ all_data = <<>>
    /\ requests = <<>>
    /\ pages = <<>>
    /\ fetch_error = FALSE
    /\ response = "none"
    /\ runs = 1
    /\ served = "fetch"

(* Inputs of the filter *)
Chars == {"a", "A", "b", "B", "1"}
Terms == SeqsUpTo(Chars, MaxTermLen)
FilterNames == {None, Str(<<"A", "b">>), Str(<<"b", "a", "B">>)}
FilterCnpjs == {Str(<<>>), Str(<<"1", "2">>)}
FilterKeys == {None, Str(<<"a", "1">>)}
FilterPool ==
    {Receipt(n, c, k, <<2024, 1, 10>>, 1, None) :
        n \in FilterNames, c \in FilterCnpjs, k \in FilterKeys}

InitFilter ==
    /\ FetchIdle
    /\ MergeIdle
    /\ store = <<>>
    /\ all_receipts \in SeqsUpTo(FilterPool, MaxSearched)
    /\ search_term \in Terms
    /\ filtered_receipts = <<>>
    /\ mapping = <<>>
    /\ cnpj_to_name = <<>>
    /\ selected_cnpj = None
    /\ all_receipts_for_cnpj = <<>>
    /\ apc = "input"

SpecFilter == InitFilter /\ [][NextAgg]_vars

(* Inputs of the grouping *)
Dates == {<<2024, 1, 10>>, <<2024, 2, 5>>, <<2023, 12, 31>>}
GroupCnpjs == {Str(<<"1", "2">>), Str(<<"3", "4">>)}
GroupTerms == {<<>>, <<"1">>}
GroupPool ==
    {Receipt(Str(<<"A", "b">>), c, None, d, v, None) :
        c \in GroupCnpjs, d \in Dates, v \in 1..MaxValor}

InitGroup ==
    /\ FetchIdle
    /\ MergeIdle
    /\ store = <<>>
    /\ all_receipts \in SeqsUpTo(GroupPool, MaxGrouped)
    /\ search_term \in GroupTerms
    /\ filtered_receipts = <<>>
    /\ mapping = <<>>
    /\ cnpj_to_name = <<>>
    /\ selected_cnpj = None
    /\ all_receipts_for_cnpj = <<>>
    /\ apc = "input"

SpecGroup == InitGroup /\ [][NextAgg]_vars

----------------------------------------------------------------------------
(* Claims about the filter and the grouping *)

SameLetter(c1, c2) ==
    \/ c1 = c2
    \/ {c1, c2} = {"a", "A"}
    \/ {c1, c2} = {"b", "B"}

\* t occurs in f, letter case ignored
CISubstring(t, f) ==
    \E i \in 1..(Len(f) - Len(t) + 1) :
        \A j \in 1..Len(t) : SameLetter(f[i + j - 1], t[j])

ShouldKeep(r, t) ==
    \E field \in {r.nome_recebedor, r.cnpj_recebedor, r.chave_pix} :
        field # None /\ CISubstring(t, field.v)

RECURSIVE Kept(_, _)
Kept(rs, t) ==
    IF rs = <<>> THEN <<>>
    ELSE (IF ShouldKeep(Head(rs), t) THEN <<Head(rs)>> ELSE <<>>) \o Kept(Tail(rs), t)

\* C7: with a non-empty term the filtered list is, in order, the receipts in
\* which the term occurs, letter case ignored, in a present payee name, payee id
\* or payment key; with an empty term it is the receipt list itself.
C7_Filter ==
    apc # "input" =>
        filtered_receipts =
            IF search_term = <<>> THEN all_receipts
            ELSE Kept(all_receipts, search_term)

C7_Witness ==
    /\ apc # "input"
    /\ search_term = <<"A", "1">>
    /\ Len(all_receipts) = 2
    /\ all_receipts[1].chave_pix = None
    /\ all_receipts[2].nome_recebedor = None
    /\ filtered_receipts = <<all_receipts[2]>>

IsoLess(a, b) ==
    \/ a[1] < b[1]
    \/ a[1] = b[1] /\ a[2] < b[2]
    \/ a[1] = b[1] /\ a[2] = b[2] /\ a[3] < b[3]

\* C8: the flattened selection holds the selected payee's receipts of the
\* filtered list, never an earlier date before a later one, and the receipts of
\* one date in the order they have in the filtered list.
C8_Flatten ==
    apc = "selected" =>
        LET F == all_receipts_for_cnpj
            days == {filtered_receipts[i].data_transferencia :
                        i \in 1..Len(filtered_receipts)}
                    \cup {F[i].data_transferencia : i \in 1..Len(F)}
        IN  /\ \A i, j \in 1..Len(F) :
                  i < j => ~IsoLess(F[i].data_transferencia, F[j].data_transferencia)
            /\ \A i \in 1..Len(F) : F[i].cnpj_recebedor = selected_cnpj
            /\ \A d \in days :
                  SelectSeq(F, LAMBDA r : r.data_transferencia = d) =
                  SelectSeq(filtered_receipts,
                            LAMBDA r : r.cnpj_recebedor = selected_cnpj
                                       /\ r.data_transferencia = d)

C8_Witness ==
    /\ apc = "selected"
    /\ Len(filtered_receipts) = 3
    /\ filtered_receipts[1].data_transferencia = <<2024, 1, 10>>
    /\ filtered_receipts[2].data_transferencia = <<2024, 2, 5>>
    /\ filtered_receipts[3].data_transferencia = <<2024, 2, 5>>
    /\ filtered_receipts[2].valor # filtered_receipts[3].valor
    /\ all_receipts_for_cnpj =
          <<filtered_receipts[2], filtered_receipts[3], filtered_receipts[1]>>

----------------------------------------------------------------------------
(* The bulk download: merge_pdfs_from_urls behind st.cache_data (lines 111-177) *)

\* the parameter of merge_pdfs_from_urls (line 116)
ReceiptsTupleParam == [name |-> "_receipts_tuple", underscore |-> TRUE]

\* tuple(frozenset(d.items()) for d in all_receipts_for_cnpj) (line 138)
HashableReceipts(rs) ==
    [i \in 1..Len(rs) |-> {<<k, rs[i][k]>> : k \in DOMAIN rs[i]}]

\* [dict(item) for item in _receipts_tuple] (line 118)
DictsOf(tuple) ==
    [i \in 1..Len(tuple) |->
        [k \in {kv[1] : kv \in tuple[i]} |->
            (CHOOSE kv \in tuple[i] : kv[1] = k)[2]]]

MergeKey(hashable_receipts) == MakeValueKey(ReceiptsTupleParam, hashable_receipts)

\* what a GET of a url gives: a request error, a body that is no PDF, or a
\* PDF of n pages
RequestError == [kind |-> "error"]
NotPdf == [kind |-> "notpdf"]
PdfOf(n) == [kind |-> "pdf", n |-> n]

\* pdf_reader.pages of the document at url
PagesAt(url, doc) == [k \in 1..doc.n |-> <<url, k>>]

NoPdf == [none |-> TRUE]
Bytes(pgs) == [pages |-> pgs]
NotRendered == [none |-> TRUE]

RECURSIVE TotalValue(_)
\* total_value (lines 151-154)
TotalValue(rs) == IF rs = <<>> THEN 0 ELSE Head(rs).valor + TotalValue(Tail(rs))

\* lines 64-109 of one run: the search box is empty and a payee is chosen
ChoosePayee(cnpj) ==
    /\ mpc \in {"idle", "done", "crashed"}
    /\ mruns < MaxMergeRuns
    /\ all_receipts # <<>>
    /\ filtered_receipts' = FilterReceipts(all_receipts, search_term)
    /\ filtered_receipts' # <<>>
    /\ mapping' = BuildMapping(<<>>, filtered_receipts')
    /\ cnpj_to_name' = BuildNames(<<>>, filtered_receipts')
    /\ cnpj \in DOMAIN cnpj_to_name'
    /\ selected_cnpj' = cnpj
    /\ all_receipts_for_cnpj' = ReceiptsForCnpj(mapping', cnpj)
    /\ apc' = "selected"
    /\ mruns' = mruns + 1
    /\ downloaded' = <<>>
    /\ uncaught' = "none"
    /\ rendered' = NotRendered
    /\ UNCHANGED <<fetchVars, search_term, store, merged_lists>>

\* line 113 false: one receipt, no merge
RunSingle ==
    /\ \E cnpj \in GroupCnpjs :
          /\ ChoosePayee(cnpj)
          /\ Len(all_receipts_for_cnpj') <= 1
    /\ merged_pdf_data' = NoPdf
    /\ merge_served' = "none"
    /\ mpc' = "render"
    /\ UNCHANGED <<merge_cache, receipts, ri, pdf_writer>>

\* line 139 with an entry under the call's key: the stored bytes are returned
RunMergeCached ==
    /\ \E cnpj \in GroupCnpjs :
          /\ ChoosePayee(cnpj)
          /\ Len(all_receipts_for_cnpj') > 1
          /\ MergeKey(HashableReceipts(all_receipts_for_cnpj')) \in DOMAIN merge_cache
          /\ merged_pdf_data' =
                merge_cache[MergeKey(HashableReceipts(all_receipts_for_cnpj'))].value
    /\ merge_served' = "cache"
    /\ mpc' = "render"
    /\ UNCHANGED <<merge_cache, receipts, ri, pdf_writer>>

\* line 139 with no entry under the call's key: the body starts (lines 118-119)
RunMergeBody ==
    /\ \E cnpj \in GroupCnpjs :
          /\ ChoosePayee(cnpj)
          /\ Len(all_receipts_for_cnpj') > 1
          /\ MergeKey(HashableReceipts(all_receipts_for_cnpj')) \notin DOMAIN merge_cache
          /\ receipts' = DictsOf(HashableReceipts(all_receipts_for_cnpj'))
    /\ ri' = 1
    /\ pdf_writer' = <<>>
    /\ merged_pdf_data' = NoPdf
    /\ merge_served' = "body"
    /\ mpc' = "merge"
    /\ UNCHANGED merge_cache

InLoop == mpc = "merge" /\ ri <= Len(receipts)

\* lines 122-123: pdf_url is None or empty
MergeNoUrl ==
    /\ InLoop
    /\ ~Truthy(receipts[ri].pdf_url)
    /\ ri' = ri + 1
    /\ UNCHANGED <<fetchVars, aggVars, store, merge_cache, mpc, receipts, pdf_writer,
                   merged_pdf_data, downloaded, uncaught, rendered, mruns, merge_served, merged_lists>>

\* lines 125-126, 130-131: requests raises a RequestException, which is passed over
MergeDownloadError ==
    /\ InLoop
    /\ Truthy(receipts[ri].pdf_url)
    /\ store[receipts[ri].pdf_url.v] = RequestError
    /\ downloaded' = Append(downloaded, receipts[ri].pdf_url.v)
    /\ ri' = ri + 1
    /\ UNCHANGED <<fetchVars, aggVars, store, merge_cache, mpc, receipts, pdf_writer,
                   merged_pdf_data, uncaught, rendered, mruns, merge_served, merged_lists>>

\* line 127: PdfReader raises PdfReadError, which no except clause names
MergeParseError ==
    /\ InLoop
    /\ Truthy(receipts[ri].pdf_url)
    /\ store[receipts[ri].pdf_url.v] = NotPdf
    /\ downloaded' = Append(downloaded, receipts[ri].pdf_url.v)
    /\ uncaught' = "PdfReadError"
    /\ mpc' = "crashed"
    /\ UNCHANGED <<fetchVars, aggVars, store, merge_cache, receipts, ri, pdf_writer,
                   merged_pdf_data, rendered, mruns, merge_served, merged_lists>>

\* lines 125-129: the document is read and its pages added
MergeAddPages ==
    /\ InLoop
    /\ Truthy(receipts[ri].pdf_url)
    /\ store[receipts[ri].pdf_url.v].kind = "pdf"
    /\ downloaded' = Append(downloaded, receipts[ri].pdf_url.v)
    /\ pdf_writer' = pdf_writer \o PagesAt(receipts[ri].pdf_url.v,
                                           store[receipts[ri].pdf_url.v])
    /\ ri' = ri + 1
    /\ UNCHANGED <<fetchVars, aggVars, store, merge_cache, mpc, receipts,
                   merged_pdf_data, uncaught, rendered, mruns, merge_served, merged_lists>>

\* lines 133-139: the writer serializes; the bytes are stored under the key and returned
MergeWrite ==
    /\ mpc = "merge"
    /\ ri > Len(receipts)
    /\ merged_pdf_data' = Bytes(pdf_writer)
    /\ merge_cache' = CacheStore(merge_cache,
                                 MergeKey(HashableReceipts(all_receipts_for_cnpj)),
                                 Bytes(pdf_writer), now)
    /\ merged_lists' = merged_lists \cup {all_receipts_for_cnpj}
    /\ mpc' = "render"
    /\ UNCHANGED <<fetchVars, aggVars, store, receipts, ri, pdf_writer, downloaded,
                   uncaught, rendered, mruns, merge_served>>

\* line 134: pdf_writer.write raises; nothing catches it
MergeWriteError ==
    /\ mpc = "merge"
    /\ ri > Len(receipts)
    /\ uncaught' = "WriteError"
    /\ mpc' = "crashed"
    /\ UNCHANGED <<fetchVars, aggVars, store, merge_cache, receipts, ri, pdf_writer,
                   merged_pdf_data, downloaded, rendered, mruns, merge_served, merged_lists>>

\* lines 141-177: the download button, the receipt list with its links, the total
Render ==
    /\ mpc = "render"
    /\ rendered' = [list |-> all_receipts_for_cnpj,
                    total |-> TotalValue(all_receipts_for_cnpj),
                    bulk |-> merged_pdf_data]
    /\ mpc' = "done"
    /\ UNCHANGED <<fetchVars, aggVars, store, merge_cache, receipts, ri, pdf_writer,
                   merged_pdf_data, downloaded, uncaught, mruns, merge_served, merged_lists>>

NextMerge ==
    \/ RunSingle
    \/ RunMergeCached
    \/ RunMergeBody
    \/ MergeNoUrl
    \/ MergeDownloadError
    \/ MergeParseError
    \/ MergeAddPages
    \/ MergeWrite
    \/ MergeWriteError
    \/ Render

(* Inputs of the bulk download *)
Urls == {<<"u", "1">>, <<"u", "2">>}
DocOutcomes == {RequestError, NotPdf} \cup {PdfOf(n) : n \in 1..MaxDocPages}
MergePool ==
    {Receipt(Str(<<"A", "b">>), c, None, <<2024, 1, 10>>, 1, u) :
        c \in GroupCnpjs, u \in {None} \cup {Str(url) : url \in Urls}}

InitMerge ==
    /\ FetchIdle
    /\ MergeIdle
    /\ all_receipts \in SeqsUpTo(MergePool, MaxMerged)
    /\ store \in [Urls -> DocOutcomes]
    /\ search_term = <<>>
    /\ filtered_receipts = <<>>
    /\ mapping = <<>>
    /\ cnpj_to_name = <<>>
    /\ selected_cnpj = None
    /\ all_receipts_for_cnpj = <<>>
    /\ apc = "input"

SpecMerge == InitMerge /\ [][NextMerge]_vars

----------------------------------------------------------------------------
(* Claims about the bulk download *)

\* the pages of the documents of rs that have a url, download and parse, in order
RECURSIVE ExpectedPages(_)
ExpectedPages(rs) ==
    IF rs = <<>> THEN <<>>
    ELSE LET u == Head(rs).pdf_url
         IN  (IF u # None /\ u.v # <<>> /\ store[u.v].kind = "pdf"
              THEN [k \in 1..store[u.v].n |-> <<u.v, k>>]
              ELSE <<>>) \o ExpectedPages(Tail(rs))

\* the run is over: it showed the page to its end or died of an exception
RunOver == mruns > 0 /\ mpc \in {"done", "crashed"}

\* the loop of lines 121-131 keeps pdf_writer equal to the pages of the
\* receipts it has passed
MergeLoopPages ==
    mpc = "merge" => pdf_writer = ExpectedPages(SubSeq(receipts, 1, ri - 1))

\* the first merge a process writes is the merge of the list it was asked for
FirstMergeIsOwn ==
    (merge_served = "body" /\ mpc \in {"render", "done"}) =>
        merged_pdf_data = Bytes(ExpectedPages(all_receipts_for_cnpj))

\* C1: a bulk download whose receipt list was merged before is served from
\* the cache with no download, one whose list was not runs its own merge, and
\* the bytes a selection gets are the merge of its own list.
C1_CacheKeyedByList ==
    /\ [][ (mruns' = mruns + 1 /\ Len(all_receipts_for_cnpj') > 1) =>
              IF all_receipts_for_cnpj' \in merged_lists
              THEN merge_served' = "cache" /\ downloaded' = <<>>
              ELSE merge_served' = "body"
       ]_vars
    /\ []((mpc \in {"render", "done"} /\ Len(all_receipts_for_cnpj) > 1) =>
              merged_pdf_data = Bytes(ExpectedPages(all_receipts_for_cnpj)))

\* C2: a receipt whose document fails to download or to parse adds no page,
\* the loop goes on to the next receipt, and only the final write can keep the
\* merge from returning a document.
C2_FailuresSwallowed ==
    /\ [][ ( /\ InLoop
             /\ Truthy(receipts[ri].pdf_url)
             /\ store[receipts[ri].pdf_url.v] \in {RequestError, NotPdf} ) =>
              /\ pdf_writer' = pdf_writer
              /\ ri' = ri + 1
              /\ mpc' = "merge"
              /\ uncaught' = "none"
       ]_vars
    /\ [](mpc = "crashed" => uncaught = "WriteError")

\* C6: a run whose final write failed still shows the selected payee's
\* receipt list with its links and the total.
C6_WriteFailureConfined ==
    (RunOver /\ uncaught = "WriteError") =>
        rendered = [list |-> all_receipts_for_cnpj,
                    total |-> TotalValue(all_receipts_for_cnpj),
                    bulk |-> NoPdf]

\* C9: unless the final write fails, a merge of two or more receipts gives
\* the document whose pages are, in receipt order, the pages of every document
\* that has a url, downloads and parses.
C9_MergedPages ==
    (RunOver /\ Len(all_receipts_for_cnpj) > 1 /\ uncaught # "WriteError") =>
        merged_pdf_data = Bytes(ExpectedPages(all_receipts_for_cnpj))

====
